---- MODULE Spec2Model ----
(***************************************************************************)
(* Model of marianogappa/fl: a geo-aware full-text search service over an  *)
(* Elasticsearch index.                                                    *)
(*                                                                         *)
(*   db.go        replaceIndex / bulkInsertItems (the index rebuild) and   *)
(*                search (the ranked query)                                *)
(*                                                                         *)
(* The Elasticsearch server is the environment: one index, the documents   *)
(* written to it (stored) and the documents the last refresh made visible  *)
(* to queries (searchable).  Every client call is one step; its outcome is *)
(* chosen among the outcomes the server can give.                          *)
(***************************************************************************)
EXTENDS Integers, Sequences, FiniteSets, TLC

VARIABLES
    indexExists,    \* the index db.index exists in the store
    stored,         \* documents written to the index: id -> item
    searchable,     \* documents the last refresh published to queries: id -> item
    pc,             \* per writer: the position of its replaceIndex call
    items,          \* per writer: the argument of its current (or last) call
    ret,            \* per writer: the result of its last call: "none", "ok", "err"
    ops,            \* per writer: the store operations its current (or last) call issued
    calls,          \* per writer: the number of calls it has started
    hist,           \* history: did two calls overlap, who returned last, what successful calls loaded
    resp,           \* the response of the search or request served by the last step (NoResp otherwise)
    boot,           \* the process: its position in main, its connection attempts, its dump
    inflight        \* per handler goroutine: the ServeHTTP call it runs, its local variables, its response

vars == <<indexExists, stored, searchable, pc, items, ret, ops, calls, hist, resp, boot, inflight>>

----------------------------------------------------------------------------
(* Bounds *)

MaxItems == 2       \* records per replaceIndex call in the rebuild specifications
MaxCalls == 2       \* replaceIndex calls of the single writer

----------------------------------------------------------------------------
(* Data: db.go type item / type location *)

Words == {"cort", "bass", "camera"}

\* A location is a point of a grid, its coordinates in km.
Point(lat, lon) == [Lat |-> lat, Lon |-> lon]

Abs(x) == IF x >= 0 THEN x ELSE -x

\* The geo-distance primitive: the distance along the grid.
Distance(a, b) == Abs(a.Lat - b.Lat) + Abs(a.Lon - b.Lon)

\* A Go slice is nil or a (possibly empty) sequence.
NilSlice == [isNil |-> TRUE, elems |-> <<>>]
Slice(elems) == [isNil |-> FALSE, elems |-> elems]

Item(name, url, imgs, loc) ==
    [Name |-> name, Location |-> Point(loc, 0), URL |-> url, ImgURLs |-> Slice(imgs)]

\* The records the rebuild specifications load.
LoadItems ==
    { Item({"cort", "bass"}, {"london"}, <<>>, 20),
      Item({"camera"}, {"london", "camera"}, <<{"camera"}>>, 0) }

RECURSIVE SeqsUpTo(_, _)
SeqsUpTo(S, n) ==
    IF n = 0 THEN { <<>> }
    ELSE LET shorter == SeqsUpTo(S, n - 1)
         IN  shorter \cup { Append(s, x) : s \in shorter, x \in S }

ItemSeqs == SeqsUpTo(LoadItems, MaxItems)

Writers == {1, 2}
Other(w) == 3 - w

EmptyDocs == [i \in {} |-> 0]
NoResp == [kind |-> "none"]

----------------------------------------------------------------------------
(* bulkInsertItems, db.go:120-125: the bulk request *)

\* strconv.Itoa(i) for the i-th item of the range loop; TLA+ sequences start at 1.
DocId_FromOne(k) == k

DocId(k) == k - 1

\* The loop `for i, item := range items` skipping the first element.
BulkRequest_SkipFirst(its) ==
    [id \in { DocId(k) : k \in 2..Len(its) } |->
        its[CHOOSE k \in 2..Len(its) : DocId(k) = id]]

\* One index request per item, under the id of its position: id -> document.
BulkRequest(its) ==
    [id \in { DocId(k) : k \in 1..Len(its) } |->
        its[CHOOSE k \in 1..Len(its) : DocId(k) = id]]

\* What a catalog holding exactly the records `its` looks like.
DocsOf(its) == [id \in 0..(Len(its) - 1) |-> its[id + 1]]

\* The store after indexing the requests `acc` of `req` over the documents `docs`.
Upsert(docs, req, acc) ==
    [id \in (DOMAIN docs) \cup acc |-> IF id \in acc THEN req[id] ELSE docs[id]]

----------------------------------------------------------------------------
(* The code's judgement of each response, db.go:92-135 *)

\* The delete of an existing index left out.
AfterExists_NoDelete(exists) == "create"

\* db.go:96: `if exists { DeleteIndex }` then CreateIndex.
AfterExists(exists) == IF exists THEN "delete" ELSE "create"

\* db.go:92-95: an error of the exists-check.
ExistsFailed_Ignored(err) == FALSE

ExistsFailed(err) == err

\* db.go:98-103: res is "nil" (with an error), "ack" or "unack".
DeleteFailed_ErrOnly(res) == res = "nil"

DeleteFailed(res) == res = "nil" \/ res # "ack"

\* db.go:106-111
CreateFailed(res) == res = "nil" \/ res # "ack"

\* db.go:127-132: the request failed, or the response reports rejected documents.
BulkFailed_ErrOnly(err, errors) == err

BulkFailed(err, errors) == err \/ errors

\* db.go:133: after a bulk insert without errors the index is refreshed.
AfterBulkOk_NoRefresh == "return"

AfterBulkOk == "refresh"

----------------------------------------------------------------------------
(* History bookkeeping *)

Log(w, op, ok) == [ops EXCEPT ![w] = Append(@, [op |-> op, ok |-> ok])]

\* An error return that goes back to the failed step instead of returning.
Returned_Retry(w, r) ==
    IF r = "err"
    THEN UNCHANGED <<pc, ret, hist>>
    ELSE /\ pc' = [pc EXCEPT ![w] = "idle"]
         /\ ret' = [ret EXCEPT ![w] = r]
         /\ hist' = [hist EXCEPT !.lastRet = w, !.loaded = @ \cup {items[w]}]

Returned(w, r) ==
    /\ pc' = [pc EXCEPT ![w] = "idle"]
    /\ ret' = [ret EXCEPT ![w] = r]
    /\ hist' = [hist EXCEPT !.lastRet = w,
                            !.loaded = IF r = "ok" THEN @ \cup {items[w]} ELSE @]

Goto(w, where) ==
    /\ pc' = [pc EXCEPT ![w] = where]
    /\ UNCHANGED <<ret, hist>>

----------------------------------------------------------------------------
(* replaceIndex, db.go:91-116 *)

\* A caller invokes replaceIndex(items).
replaceIndex(w) ==
    /\ pc[w] = "idle"
    /\ calls[w] < MaxCalls
    /\ \E its \in ItemSeqs : items' = [items EXCEPT ![w] = its]
    /\ pc' = [pc EXCEPT ![w] = "exists"]
    /\ ret' = [ret EXCEPT ![w] = "none"]
    /\ ops' = [ops EXCEPT ![w] = <<>>]
    /\ calls' = [calls EXCEPT ![w] = @ + 1]
    /\ hist' = [hist EXCEPT !.overlap = @ \/ pc[Other(w)] # "idle"]
    /\ resp' = NoResp
    /\ UNCHANGED <<boot, inflight>>
    /\ UNCHANGED <<indexExists, stored, searchable>>

\* db.go:92-95: IndexExists(db.index).Do
IndexExists(w) ==
    /\ pc[w] = "exists"
    /\ \E err \in BOOLEAN :
        /\ ops' = Log(w, "exists", ~err)
        /\ IF ExistsFailed(err) THEN Returned(w, "err")
                                ELSE Goto(w, AfterExists(indexExists))
    /\ resp' = NoResp
    /\ UNCHANGED <<boot, inflight>>
    /\ UNCHANGED <<indexExists, stored, searchable, items, calls>>

\* The store side of a delete: an acknowledged delete removed the index; a failed
\* or unacknowledged one may or may not have; deleting a missing index is an error.
DeleteOutcomes ==
    IF indexExists
    THEN { [res |-> "ack", gone |-> TRUE] }
         \cup { [res |-> r, gone |-> g] : r \in {"nil", "unack"}, g \in BOOLEAN }
    ELSE { [res |-> "nil", gone |-> TRUE] }

\* db.go:97-103: DeleteIndex(db.index).Do
DeleteIndex(w) ==
    /\ pc[w] = "delete"
    /\ \E o \in DeleteOutcomes :
        /\ indexExists' = (indexExists /\ ~o.gone)
        /\ stored' = IF o.gone THEN EmptyDocs ELSE stored
        /\ searchable' = IF o.gone THEN EmptyDocs ELSE searchable
        /\ ops' = Log(w, "delete", o.res = "ack")
        /\ IF DeleteFailed(o.res) THEN Returned(w, "err")
                                  ELSE Goto(w, "create")
    /\ resp' = NoResp
    /\ UNCHANGED <<boot, inflight>>
    /\ UNCHANGED <<items, calls>>

\* The store side of a create: creating an existing index is an error and changes
\* nothing; otherwise an acknowledged create made an empty index, a failed or
\* unacknowledged one may or may not have.
CreateOutcomes ==
    IF indexExists
    THEN { [res |-> "nil", made |-> FALSE] }
    ELSE { [res |-> "ack", made |-> TRUE] }
         \cup { [res |-> r, made |-> m] : r \in {"nil", "unack"}, m \in BOOLEAN }

\* db.go:105-111: CreateIndex(db.index).BodyString(mapping).Do
CreateIndex(w) ==
    /\ pc[w] = "create"
    /\ \E o \in CreateOutcomes :
        /\ indexExists' = (indexExists \/ o.made)
        /\ stored' = IF o.made THEN EmptyDocs ELSE stored
        /\ searchable' = IF o.made THEN EmptyDocs ELSE searchable
        /\ ops' = Log(w, "create", o.res = "ack")
        /\ IF CreateFailed(o.res) THEN Returned(w, "err")
                                  ELSE Goto(w, "bulk")
    /\ resp' = NoResp
    /\ UNCHANGED <<boot, inflight>>
    /\ UNCHANGED <<items, calls>>

----------------------------------------------------------------------------
(* bulkInsertItems, db.go:120-137 *)

\* The store side of a bulk request: a response without errors indexed every
\* document; a response with errors rejected at least one; a failed request may
\* have indexed any of them.
BulkOutcomes(req) ==
    { [err |-> FALSE, errors |-> FALSE, acc |-> DOMAIN req] }
    \cup { [err |-> FALSE, errors |-> TRUE, acc |-> a] :
              a \in (SUBSET (DOMAIN req)) \ {DOMAIN req} }
    \cup { [err |-> TRUE, errors |-> FALSE, acc |-> a] : a \in SUBSET (DOMAIN req) }

\* db.go:121-132: Bulk().Add(...).Do.  Indexing into a missing index creates it
\* (the store's default).
Bulk(w) ==
    /\ pc[w] = "bulk"
    /\ LET req == BulkRequest(items[w])
       IN  \E o \in BulkOutcomes(req) :
            /\ indexExists' = (indexExists \/ o.acc # {})
            /\ stored' = Upsert(stored, req, o.acc)
            /\ ops' = Log(w, "bulk", ~o.err /\ ~o.errors)
            /\ IF BulkFailed(o.err, o.errors)
               THEN Returned(w, "err")
               ELSE IF AfterBulkOk = "refresh" THEN Goto(w, "refresh")
                                               ELSE Returned(w, "ok")
    /\ resp' = NoResp
    /\ UNCHANGED <<boot, inflight>>
    /\ UNCHANGED <<searchable, items, calls>>

\* db.go:133-136: Refresh(db.index).Do; a successful refresh published every
\* stored document, a failed one may or may not have.
Refresh(w) ==
    /\ pc[w] = "refresh"
    /\ \E err \in BOOLEAN, done \in BOOLEAN :
        /\ (~indexExists) => (err /\ ~done)
        /\ (~err) => done
        /\ searchable' = IF done THEN stored ELSE searchable
        /\ ops' = Log(w, "refresh", ~err)
        /\ Returned(w, IF err THEN "err" ELSE "ok")
    /\ resp' = NoResp
    /\ UNCHANGED <<boot, inflight>>
    /\ UNCHANGED <<indexExists, stored, items, calls>>

\* The store's own periodic refresh (refresh_interval).
StoreRefresh ==
    /\ indexExists
    /\ searchable # stored
    /\ searchable' = stored
    /\ resp' = NoResp
    /\ UNCHANGED <<boot, inflight>>
    /\ UNCHANGED <<indexExists, stored, pc, items, ret, ops, calls, hist>>

----------------------------------------------------------------------------
(* search, endpoint.go:186-227 (the revision of db.go with the documented    *)
(* scoring: three text fields, gauss decay with offset 5km and scale 10km)  *)

\* Scores are fixed-point: ScoreUnit stands for the multiplier 1.0.
ScoreUnit == 2 ^ 9

RECURSIVE UnionAll(_)
UnionAll(sq) == IF sq = <<>> THEN {} ELSE Head(sq) \cup UnionAll(Tail(sq))

Max2(a, b) == IF a >= b THEN a ELSE b

\* The text substrate: the relevance of one analysed field for the query words.
FieldScore(term, words) == Cardinality(term \cap words)

\* endpoint.go:196, NewMultiMatchQuery(searchTerm, "name", "url", "img_urls"):
\* the best field's relevance; zero when no field holds a query word.
MultiMatch(term, it) ==
    Max2(FieldScore(term, it.Name),
         Max2(FieldScore(term, it.URL), FieldScore(term, UnionAll(it.ImgURLs.elems))))

\* endpoint.go:203, Offset("5km").Scale("10km")
Offset == 5
Scale == 10

\* The store's gauss decay with decay 0.5 at offset + scale:
\*   1 if d <= offset, else 0.5 ^ (((d - offset) / scale) ^ 2),
\* exact at the distances where the exponent is an integer (OnCurve); a
\* multiplier below the smallest representable one is 0, as it is in floating point.
Decay(d, offset, scale) ==
    IF d <= offset THEN ScoreUnit
    ELSE LET e == ((d - offset) * (d - offset)) \div (scale * scale)
         IN  IF e > 9 THEN 0 ELSE ScoreUnit \div (2 ^ e)

OnCurve(d) == d <= Offset \/ (d - Offset) % Scale = 0

\* db.go:145, the earlier revision's Offset("2km").Scale("3km").
GaussDecay_2km3km(d) == Decay(d, 2, 3)

\* endpoint.go:203, NewGaussDecayFunction().FieldName("location").Origin(loc)
GaussDecay(d) == Decay(d, Offset, Scale)

\* The text relevance and the decay added instead of multiplied.
CompositeScore_Sum(rel, decay) == rel * ScoreUnit + decay

\* endpoint.go:207: the function score multiplies the query's relevance.
CompositeScore(rel, decay) == rel * decay

Score(term, loc, it) ==
    CompositeScore(MultiMatch(term, it), GaussDecay(Distance(loc, it.Location)))

\* A geo-distance filter on top of the text match.
Matches_Near(term, loc, it) ==
    MultiMatch(term, it) > 0 /\ Distance(loc, it.Location) <= Offset + Scale

\* endpoint.go:196-203: the text query is the only filter of the function score query.
Matches(term, loc, it) == MultiMatch(term, it) > 0

\* The store's order among equal scores is its own: by ascending or descending id.
TieOrders == {"asc", "desc"}

\* Whether hit x = <<score, id>> is listed before hit y.
Ahead(x, y, tie) ==
    \/ x[1] > y[1]
    \/ x[1] = y[1] /\ (IF tie = "asc" THEN x[2] < y[2] ELSE x[2] > y[2])

RECURSIVE SortHits(_, _)
SortHits(S, tie) ==
    IF S = {} THEN <<>>
    ELSE LET first == CHOOSE x \in S : \A y \in S \ {x} : Ahead(x, y, tie)
         IN  <<first>> \o SortHits(S \ {first}, tie)

\* The matching documents of docs as <<score, id>>, best composite score first.
Ranked(docs, term, loc, tie) ==
    SortHits({ <<Score(term, loc, docs[id]), id>> :
                 id \in { i \in DOMAIN docs : Matches(term, loc, docs[i]) } }, tie)

\* endpoint.go:209, Size(20)
Size == 20

Page_All(ranked) == ranked

Page(ranked) ==
    IF Len(ranked) <= Size THEN ranked ELSE SubSeq(ranked, 1, Size)

\* float64 NaN, a value apart from every coordinate of the model.
NaN == 100000

\* strconv.ParseFloat(s, 64) at endpoint.go:28 and 33 (and dump.go:40, 44) on the
\* strings of the model: decimal numbers parse to their value, "NaN" parses to the
\* float NaN without an error, the empty string and any other text is an error.
ParseFloat(s) ==
    CASE s = "-5"  -> [err |-> FALSE, f |-> -5]
      [] s = "0"   -> [err |-> FALSE, f |-> 0]
      [] s = "5"   -> [err |-> FALSE, f |-> 5]
      [] s = "5.0" -> [err |-> FALSE, f |-> 5]
      [] s = "15"  -> [err |-> FALSE, f |-> 15]
      [] s = "20"  -> [err |-> FALSE, f |-> 20]
      [] s = "NaN" -> [err |-> FALSE, f |-> NaN]
      [] OTHER     -> [err |-> TRUE, f |-> 0]

\* location{Lat: lat, Lon: lng}
Location(lat, lng) == Point(lat, lng)

\* endpoint.go:209, Do: the query body, with the origin in it, is encoded as JSON
\* before it is sent; encoding/json rejects a NaN.
QueryEncodes(loc) == loc.Lat # NaN /\ loc.Lon # NaN

\* endpoint.go:188, items = make([]item, 0): the slice search returns is never nil.
ItemsIsNil_Var(its) == its = <<>>

ItemsIsNil(its) == FALSE

\* endpoint.go:216-224: the loop over the hits.  bad is the position of the first
\* hit whose source json.Unmarshal rejects (0: none); the loop appends the hits
\* before it and stops there.
Unmarshalled(page, bad) ==
    IF bad \in DOMAIN page THEN SubSeq(page, 1, bad - 1) ELSE page

UnmarshalFailed(page, bad) == bad \in DOMAIN page

\* endpoint.go:186-227: the response of search(searchTerm, loc): the decoded items,
\* with the store's hit ids and scores beside them.  A query against a missing index
\* fails; fail is any other failure of the query.  Both error returns hand back
\* the items variable as it is at that point (lines 213 and 221).  queries counts
\* the calls of Search()...Do: the one of line 209, on every path.
search(term, loc, fail, bad, tie) ==
    IF ~QueryEncodes(loc) \/ fail \/ ~indexExists
    THEN [kind |-> "search", term |-> term, loc |-> loc, queries |-> 1,
          hits |-> <<>>, scores |-> <<>>, items |-> <<>>, err |-> TRUE]
    ELSE LET page == Page(Ranked(searchable, term, loc, tie))
             done == Unmarshalled(page, bad)
         IN  [kind |-> "search", term |-> term, loc |-> loc, queries |-> 1,
              hits |-> [k \in DOMAIN page |-> page[k][2]],
              scores |-> [k \in DOMAIN page |-> page[k][1]],
              items |-> [k \in DOMAIN done |-> searchable[done[k][2]]],
              err |-> UnmarshalFailed(page, bad)]

Terms == { {"cort", "bass"}, {"bass"}, {"camera"} }
Origins == { Point(-5, 0), Point(5, 0), Point(15, 0) }

\* main.go:9-12: in normal operation another process populates the index, so a
\* hit's source need not be a document this program wrote.  The positions at which
\* the first undecodable hit of a response is tried (0: every hit decodes).
BadHits == {0, 1, 2}

\* The origins whose distance to every searchable record is on the decay curve's
\* exact points.
OriginsOnCurve ==
    { loc \in Origins :
        \A id \in DOMAIN searchable : OnCurve(Distance(loc, searchable[id].Location)) }

\* A request is served: one search against the index as it is now.  Its response
\* is observed in the state that follows; any later step clears it.
Search ==
    /\ resp = NoResp
    /\ \E term \in Terms, loc \in OriginsOnCurve, fail \in BOOLEAN,
          bad \in BadHits, tie \in TieOrders :
        resp' = search(term, loc, fail, bad, tie)
    /\ UNCHANGED <<indexExists, stored, searchable, pc, items, ret, ops, calls, hist, boot, inflight>>

----------------------------------------------------------------------------
(* endpoint.go: endpointHandler.ServeHTTP *)

Methods == {"GET", "POST"}
Paths == {"/search", "/differentEndpoint", "/search/"}
SearchTerms == {"", " ", "bass", "cort bass", "camera"}
LatStrings == {"", "not a lat", "NaN", "-5", "5", "15"}
LngStrings == {"", "not a lng", "NaN", "0"}

\* r.URL.Query().Get(name) is "" for a parameter that is missing or empty.
Requests ==
    [method : Methods, path : Paths, searchTerm : SearchTerms,
     lat : LatStrings, lng : LngStrings]

\* endpoint.go:196: the multi-match query analyses the search text into words;
\* an empty or blank text has none.
Analyse(text) ==
    CASE text = "bass"      -> {"bass"}
      [] text = "cort bass" -> {"cort", "bass"}
      [] text = "camera"    -> {"camera"}
      [] OTHER              -> {}

\* http.ResponseWriter: status 0 is "no header written yet".  The first WriteHeader
\* fixes the status, a later one is ignored; a Write with no header yet sends 200.
NewResponse == [status |-> 0, body |-> <<>>]

WriteHeader(w, code) == IF w.status = 0 THEN [w EXCEPT !.status = code] ELSE w

Write(w, data, ok) ==
    LET h == WriteHeader(w, 200)
    IN  IF ok THEN [h EXCEPT !.body = Append(@, data)] ELSE h

\* encoding/json of a []item: null for a nil slice, an array otherwise.
JSONItems(r) ==
    IF ItemsIsNil(r.items) THEN [json |-> "null"]
    ELSE [json |-> "array", elems |-> r.items]

\* endpoint.go:18
MethodAllowed_Any(method) == TRUE

MethodAllowed(method) == method = "GET"

\* endpoint.go:22
PathFound_Prefix(path) == path \in {"/search", "/search/"}

PathFound(path) == path = "/search"

\* endpoint.go:29, 34
BadCoordinate(parsed) == parsed.err

\* The response of one request together with the search it made (NoResp: none).
Answer(req, w, made) ==
    [kind |-> "http", req |-> req, status |-> w.status, body |-> w.body,
     search |-> made]

\* endpoint.go:17-46.  searchTerm is read at line 27 and handed to search at line
\* 38 as it is.  wok: the write of the encoded body to the client succeeds.
ServeHTTP(req, fail, bad, tie, wok) ==
    IF ~MethodAllowed(req.method)
    THEN Answer(req, WriteHeader(NewResponse, 405), NoResp)
    ELSE IF ~PathFound(req.path)
    THEN Answer(req, WriteHeader(NewResponse, 404), NoResp)
    ELSE LET lat == ParseFloat(req.lat)
             lng == ParseFloat(req.lng)
         IN  IF BadCoordinate(lat) \/ BadCoordinate(lng)
             THEN Answer(req, WriteHeader(NewResponse, 400), NoResp)
             ELSE LET r == search(Analyse(req.searchTerm), Location(lat.f, lng.f),
                                  fail, bad, tie)
                  IN  IF r.err
                      THEN Answer(req, WriteHeader(NewResponse, 500), r)
                      ELSE LET w == Write(NewResponse, JSONItems(r), wok)
                           IN  Answer(req, IF wok THEN w ELSE WriteHeader(w, 500), r)

\* The requests of the test table: POST, another path, empty search term, bad
\* latitude, empty longitude, happy case.
TestRequests ==
    { [method |-> "POST", path |-> "/search", searchTerm |-> "camera", lat |-> "5", lng |-> "0"],
      [method |-> "GET", path |-> "/differentEndpoint", searchTerm |-> "camera", lat |-> "5", lng |-> "0"],
      [method |-> "GET", path |-> "/search", searchTerm |-> "", lat |-> "5", lng |-> "0"],
      [method |-> "GET", path |-> "/search", searchTerm |-> "camera", lat |-> "not a lat", lng |-> "0"],
      [method |-> "GET", path |-> "/search", searchTerm |-> "camera", lat |-> "5", lng |-> ""],
      [method |-> "GET", path |-> "/search", searchTerm |-> "camera", lat |-> "5", lng |-> "0"] }

\* One request out of reqs is served against the index as it is now; the handler
\* runs once main has reached serve (main.go:23).
RequestOf(reqs) ==
    /\ boot.pc = "serving"
    /\ resp = NoResp
    /\ \E req \in reqs, fail \in BOOLEAN, bad \in BadHits,
          tie \in TieOrders, wok \in BOOLEAN :
        resp' = ServeHTTP(req, fail, bad, tie, wok)
    /\ UNCHANGED <<indexExists, stored, searchable, pc, items, ret, ops, calls, hist, boot, inflight>>

Request == RequestOf(Requests)

TestRequest == RequestOf(TestRequests)

-----------------------------------------------------------------------------
(* endpoint.go: ServeHTTP calls running side by side *)

\* server.go: ListenAndServe runs every request's ServeHTTP in a goroutine of its
\* own; two of them are enough to run side by side.
Handlers == {1, 2}

\* endpoint.go:26-36: searchTerm, lat, lng and err are variables of the call.
NoLocals == [searchTerm |-> "", loc |-> Point(0, 0)]

\* A goroutine that runs no call.
NoCall == [pc |-> "idle", req |-> NoResp, locals |-> NoLocals, out |-> NoResp]

NoCalls == [h \in Handlers |-> NoCall]

\* The requests served side by side: the test table's, a search that has hits
\* in name and url, and one whose latitude is the text NaN.
ConcurrentRequests ==
    TestRequests \cup
    { [method |-> "GET", path |-> "/search", searchTerm |-> "cort bass", lat |-> "15", lng |-> "0"],
      [method |-> "GET", path |-> "/search", searchTerm |-> "bass", lat |-> "NaN", lng |-> "0"] }

\* endpoint.go:18-37: the status of the early return the request takes, 0 when it
\* takes none.
Rejection(req) ==
    IF ~MethodAllowed(req.method) THEN 405
    ELSE IF ~PathFound(req.path) THEN 404
    ELSE IF BadCoordinate(ParseFloat(req.lat)) \/ BadCoordinate(ParseFloat(req.lng))
    THEN 400
    ELSE 0

\* endpoint.go:27-33
LocalsOf(req) ==
    [searchTerm |-> req.searchTerm,
     loc |-> Location(ParseFloat(req.lat).f, ParseFloat(req.lng).f)]

\* The local variables in one place for every call.
Locals_Shared(h) == inflight[1].locals

\* endpoint.go:26-38: search is handed the local variables of the call.
Locals(h) == inflight[h].locals

\* endpoint.go:17-37: the call starts, reads its request and either returns early
\* with a status or goes on to search.
Validate(h) ==
    /\ inflight[h].pc = "idle"
    /\ \E req \in ConcurrentRequests :
        inflight' = [inflight EXCEPT ![h] =
            IF Rejection(req) # 0
            THEN [pc |-> "done", req |-> req, locals |-> NoLocals,
                  out |-> Answer(req, WriteHeader(NewResponse, Rejection(req)), NoResp)]
            ELSE [pc |-> "search", req |-> req, locals |-> LocalsOf(req),
                  out |-> NoResp]]
    /\ UNCHANGED <<indexExists, stored, searchable, pc, items, ret, ops, calls, hist, resp, boot>>

\* endpoint.go:38-45: the call queries the index as it is now and writes its
\* response.  The query (endpoint.go:209, Search()...Do) only reads the index.
Query(h) ==
    /\ inflight[h].pc = "search"
    /\ \E fail \in BOOLEAN, bad \in BadHits, tie \in TieOrders, wok \in BOOLEAN :
        LET l == Locals(h)
            r == search(Analyse(l.searchTerm), l.loc, fail, bad, tie)
            w == Write(NewResponse, JSONItems(r), wok)
            sent == IF r.err THEN WriteHeader(NewResponse, 500)
                    ELSE IF wok THEN w ELSE WriteHeader(w, 500)
        IN  inflight' = [inflight EXCEPT ![h].pc = "done",
                                         ![h].out = Answer(inflight[h].req, sent, r)]
    /\ UNCHANGED <<indexExists, stored, searchable, pc, items, ret, ops, calls, hist, resp, boot>>

\* endpoint.go:46: the call returns; nothing of it is kept.
Return(h) ==
    /\ inflight[h].pc = "done"
    /\ inflight' = [inflight EXCEPT ![h] = NoCall]
    /\ UNCHANGED <<indexExists, stored, searchable, pc, items, ret, ops, calls, hist, resp, boot>>

----------------------------------------------------------------------------
(* dump.go: readCSV, mustReadCSVFromFile *)

MaxRows == 3        \* rows of the largest dump read

\* The rows of the dumps.  A row is its fields; the text of a name or url field is
\* given by its words, as in an item.
RowPool ==
    { << {"cort", "bass"}, "20", "0", {"london"}, "[\"cort\",\"bass\"]" >>,
      << {"camera"}, "5.0", "5", {"london", "camera"}, "[]" >>,
      << {"camera"}, "0", "0", {"london"} >>,
      << {"camera"}, "not a lat", "0", {"london"}, "[]" >>,
      << {"camera"}, "0", "", {"london"}, "[]" >>,
      << {"camera"}, "0", "0", {"london"}, "{}" >>,
      << {"camera"}, "0", "0", {"london"}, "null" >> }

Dumps == SeqsUpTo(RowPool, MaxRows)

\* dump.go:49-50, json.Unmarshal([]byte(row[4]), &imgURLs) with imgURLs an empty
\* non-nil []string: an array of strings fills the slice, the literal null sets it
\* to nil without an error, any other text is an error.
Unmarshal(text) ==
    CASE text = "[]" -> [err |-> FALSE, v |-> Slice(<<>>)]
      [] text = "[\"cort\",\"bass\"]" ->
             [err |-> FALSE, v |-> Slice(<< {"cort"}, {"bass"} >>)]
      [] text = "null" -> [err |-> FALSE, v |-> NilSlice]
      [] OTHER -> [err |-> TRUE, v |-> Slice(<<>>)]

\* dump.go:29-52: the checks of one row, in the order of the code.  A row whose
\* field count differs is an error of r.Read (line 33) or of line 36.
RowError(row) ==
    IF Len(row) # 5 THEN TRUE
    ELSE IF ParseFloat(row[2]).err THEN TRUE
    ELSE IF ParseFloat(row[3]).err THEN TRUE
    ELSE Unmarshal(row[5]).err

\* db.go:19-22, 123: a float64 coordinate of a record as encoding/json writes it
\* into the document, the shortest decimal text that parses back to the value.
FormatFloat(f) ==
    CASE f = -5 -> "-5"
      [] f = 0  -> "0"
      [] f = 5  -> "5"
      [] f = 15 -> "15"
      [] f = 20 -> "20"
      [] OTHER  -> "NaN"

\* db.go:28, 123: the []string of a record as encoding/json writes it: null for a
\* nil slice, otherwise the array of its strings in slice order.
Marshal(slice) ==
    CASE slice.isNil -> "null"
      [] ~slice.isNil /\ slice.elems = <<>> -> "[]"
      [] ~slice.isNil /\ slice.elems = << {"cort"}, {"bass"} >> -> "[\"cort\",\"bass\"]"
      [] ~slice.isNil /\ slice.elems = << {"bass"}, {"cort"} >> -> "[\"bass\",\"cort\"]"
      [] OTHER -> "[...]"

\* dump.go:54-56 with the coordinates exchanged.
RowItem_LatLonSwapped(row) ==
    [Name |-> row[1],
     Location |-> Location(ParseFloat(row[3]).f, ParseFloat(row[2]).f),
     URL |-> row[4],
     ImgURLs |-> Unmarshal(row[5]).v]

\* dump.go:54-56
RowItem(row) ==
    [Name |-> row[1],
     Location |-> Location(ParseFloat(row[2]).f, ParseFloat(row[3]).f),
     URL |-> row[4],
     ImgURLs |-> Unmarshal(row[5]).v]

\* dump.go:34-51, return items, fmt.Errorf(...): what an error return hands back.
OnRowError_Nothing(parsed) == <<>>

OnRowError(parsed) == parsed

RECURSIVE ReadRows(_, _, _)
\* dump.go:28-58: the loop, at row k with the items parsed so far.
ReadRows(rows, k, parsed) ==
    IF k > Len(rows) THEN [items |-> parsed, err |-> FALSE]
    ELSE IF RowError(rows[k]) THEN [items |-> OnRowError(parsed), err |-> TRUE]
    ELSE ReadRows(rows, k + 1, Append(parsed, RowItem(rows[k])))

\* dump.go:25-59
readCSV(rows) == ReadRows(rows, 1, <<>>)

\* dump.go:19-22: log.Fatal on an error, the items otherwise.
AfterRead_Proceed(err) == "replaceIndex"

AfterRead(err) == IF err THEN "exited" ELSE "replaceIndex"

\* dump.go:13-23, mustReadCSVFromFile: the file is opened and read; an error of
\* either is fatal.  opened: os.Open succeeded.
mustReadCSVFromFile ==
    /\ boot.pc = "readCSV"
    /\ \E opened \in BOOLEAN :
         LET res == IF opened THEN readCSV(boot.dump)
                    ELSE [items |-> <<>>, err |-> TRUE]
         IN  boot' = [boot EXCEPT !.opened = opened, !.read = res,
                                  !.pc = AfterRead(res.err)]
    /\ resp' = NoResp
    /\ UNCHANGED <<indexExists, stored, searchable, pc, items, ret, ops, calls, hist, inflight>>

----------------------------------------------------------------------------
(* db.go: newDB, mustNewDB, mustReplaceIndex; main.go: main *)

\* db.go:69, for i := 1; i <= 10; i++
Attempts == 10

LoopContinues(i) == i <= Attempts

\* db.go:74-75: a failed attempt is followed by time.Sleep(1 * time.Second).
SleepAfterFailure_None(slept) == slept

SleepAfterFailure(slept) == slept + 1

\* main.go:19
AfterNewDB_Always(noReplace) == "readCSV"

AfterNewDB(noReplace) == IF noReplace THEN "serve" ELSE "readCSV"

\* db.go:69-81 and 55-61: one pass of the loop of newDB.  A successful
\* elastic.NewClient leaves the loop, newDB returns the db and main goes on; a
\* failed one sleeps and counts; when the loop ends on a failure newDB returns the
\* error and mustNewDB ends the process.
NewClient ==
    /\ boot.pc = "newDB"
    /\ LoopContinues(boot.i)
    /\ \E ok \in BOOLEAN :
         boot' = IF ok
                 THEN [boot EXCEPT !.tries = @ + 1, !.connected = TRUE,
                                   !.pc = AfterNewDB(boot.noReplace)]
                 ELSE [boot EXCEPT !.tries = @ + 1,
                                   !.slept = SleepAfterFailure(@),
                                   !.i = @ + 1,
                                   !.pc = IF LoopContinues(boot.i + 1)
                                          THEN "newDB" ELSE "exited"]
    /\ resp' = NoResp
    /\ UNCHANGED <<indexExists, stored, searchable, pc, items, ret, ops, calls, hist, inflight>>

\* main.go:20 and db.go:84-85: db.mustReplaceIndex(items) calls replaceIndex with
\* the items mustReadCSVFromFile returned.
mustReplaceIndex ==
    /\ boot.pc = "replaceIndex"
    /\ pc[1] = "idle"
    /\ boot' = [boot EXCEPT !.pc = "replacing"]
    /\ items' = [items EXCEPT ![1] = boot.read.items]
    /\ pc' = [pc EXCEPT ![1] = "exists"]
    /\ ret' = [ret EXCEPT ![1] = "none"]
    /\ ops' = [ops EXCEPT ![1] = <<>>]
    /\ calls' = [calls EXCEPT ![1] = @ + 1]
    /\ resp' = NoResp
    /\ UNCHANGED <<indexExists, stored, searchable, hist, inflight>>

\* db.go:85-87: log.Fatal if replaceIndex returned an error.
AfterReplace(r) == IF r = "ok" THEN "serve" ELSE "exited"

replaceIndexReturned ==
    /\ boot.pc = "replacing"
    /\ pc[1] = "idle"
    /\ boot' = [boot EXCEPT !.pc = AfterReplace(ret[1])]
    /\ resp' = NoResp
    /\ UNCHANGED <<indexExists, stored, searchable, pc, items, ret, ops, calls, hist, inflight>>

\* main.go:23: the server starts to listen with the handler.
serve ==
    /\ boot.pc = "serve"
    /\ boot' = [boot EXCEPT !.pc = "serving"]
    /\ resp' = NoResp
    /\ UNCHANGED <<indexExists, stored, searchable, pc, items, ret, ops, calls, hist, inflight>>

----------------------------------------------------------------------------
(* Specifications *)

InitStore ==
    /\ indexExists = FALSE
    /\ stored = EmptyDocs
    /\ searchable = EmptyDocs

\* The process of the specifications that start after main reached serve.
Serving ==
    [pc |-> "serving", i |-> 1, tries |-> 0, slept |-> 0, connected |-> TRUE,
     noReplace |-> TRUE, dump |-> <<>>, opened |-> FALSE,
     read |-> [items |-> <<>>, err |-> FALSE]]

InitWriters ==
    /\ pc = [w \in Writers |-> "idle"]
    /\ items = [w \in Writers |-> <<>>]
    /\ ret = [w \in Writers |-> "none"]
    /\ ops = [w \in Writers |-> <<>>]
    /\ calls = [w \in Writers |-> 0]
    /\ hist = [overlap |-> FALSE, lastRet |-> 0, loaded |-> {}]
    /\ boot = Serving

Init ==
    /\ InitStore
    /\ InitWriters
    /\ resp = NoResp
    /\ inflight = NoCalls

WriterStep(w) ==
    \/ replaceIndex(w)
    \/ IndexExists(w)
    \/ DeleteIndex(w)
    \/ CreateIndex(w)
    \/ Bulk(w)
    \/ Refresh(w)

\* One writer calling replaceIndex again and again.
Next ==
    \/ WriterStep(1)
    \/ StoreRefresh
    \/ Search

Spec == Init /\ [][Next]_vars

\* Two writers, one replaceIndex call each, in any interleaving.
InitTwo ==
    /\ InitStore
    /\ pc = [w \in Writers |-> "idle"]
    /\ items = [w \in Writers |-> <<>>]
    /\ ret = [w \in Writers |-> "none"]
    /\ ops = [w \in Writers |-> <<>>]
    /\ calls = [w \in Writers |-> MaxCalls - 1]
    /\ hist = [overlap |-> FALSE, lastRet |-> 0, loaded |-> {}]
    /\ boot = Serving
    /\ resp = NoResp
    /\ inflight = NoCalls

NextTwo ==
    \/ \E w \in Writers : WriterStep(w)
    \/ StoreRefresh

SpecTwo == InitTwo /\ [][NextTwo]_vars

----------------------------------------------------------------------------
(* search over a loaded catalog *)

MaxDocs == 22       \* records of the largest catalog searched

\* The records of the searched catalogs, by kind.
SearchItems ==
    << Item({"cort", "bass"}, {"london", "cort"}, <<{"cort"}>>, 20),
       Item({"bass"}, {"london", "bass"}, <<>>, 0),
       Item({"bass"}, {"paris"}, <<{"bass"}, {"bass"}>>, 40),
       Item({"camera"}, {"london", "camera"}, <<{"camera"}>>, 0),
       Item({"nikon"}, {"london"}, <<{"nikon"}, {"camera", "bass"}>>, 3) >>

Kinds == DOMAIN SearchItems

RECURSIVE Repeat(_, _)
Repeat(x, n) == IF n = 0 THEN <<>> ELSE Append(Repeat(x, n - 1), x)

RECURSIVE Dump(_, _)
\* cnt[k] records of kind k for k = 1..upto, kind by kind.
Dump(cnt, upto) ==
    IF upto = 0 THEN <<>>
    ELSE Dump(cnt, upto - 1) \o Repeat(SearchItems[upto], cnt[upto])

RECURSIVE Total(_, _)
Total(cnt, upto) == IF upto = 0 THEN 0 ELSE Total(cnt, upto - 1) + cnt[upto]

Counts == {0, 1, 2, MaxDocs \div 2, MaxDocs - 3, MaxDocs - 1}

\* The catalogs a successful replaceIndex(items) leaves: items under ids 0..n-1,
\* all of them searchable.
Catalogs ==
    { DocsOf(Dump(cnt, Len(SearchItems))) :
        cnt \in { c \in [Kinds -> Counts] : Total(c, Len(SearchItems)) <= MaxDocs } }

InitSearch ==
    /\ indexExists = TRUE
    /\ \E docs \in Catalogs : stored = docs /\ searchable = docs
    /\ InitWriters
    /\ resp = NoResp
    /\ inflight = NoCalls

NextSearch == Search

SpecSearch == InitSearch /\ [][NextSearch]_vars

----------------------------------------------------------------------------
(* requests served over a loaded catalog *)

\* The index after a successful replaceIndex(items), or missing.
InitServe ==
    /\ \/ /\ indexExists = TRUE
          /\ \E its \in ItemSeqs : stored = DocsOf(its) /\ searchable = DocsOf(its)
       \/ InitStore
    /\ InitWriters
    /\ resp = NoResp
    /\ inflight = NoCalls

NextServe == Request

SpecServe == InitServe /\ [][NextServe]_vars

-----------------------------------------------------------------------------
(* requests served side by side over a loaded catalog *)

NextHandlers == \E h \in Handlers : Validate(h) \/ Query(h) \/ Return(h)

SpecHandlers == InitServe /\ [][NextHandlers]_vars

----------------------------------------------------------------------------
(* a dump is read *)

\* The process about to read its dump.
Reading(dump, noReplace) ==
    [Serving EXCEPT !.pc = "readCSV", !.dump = dump, !.noReplace = noReplace]

InitCSV ==
    /\ InitStore
    /\ pc = [w \in Writers |-> "idle"]
    /\ items = [w \in Writers |-> <<>>]
    /\ ret = [w \in Writers |-> "none"]
    /\ ops = [w \in Writers |-> <<>>]
    /\ calls = [w \in Writers |-> 0]
    /\ hist = [overlap |-> FALSE, lastRet |-> 0, loaded |-> {}]
    /\ resp = NoResp
    /\ inflight = NoCalls
    /\ \E dump \in Dumps : boot = Reading(dump, FALSE)

NextCSV == mustReadCSVFromFile

SpecCSV == InitCSV /\ [][NextCSV]_vars

----------------------------------------------------------------------------
(* Properties of the index rebuild (Spec: one writer, requests in between)  *)

Range(sq) == { sq[k] : k \in DOMAIN sq }

\* The single writer has returned from replaceIndex with a nil error.
ReturnedOk == pc[1] = "idle" /\ ret[1] = "ok"

LastOp == ops[1][Len(ops[1])]

\* C1: whenever replaceIndex(items) has returned success, the refresh has completed
\* and every record of items is searchable: a search served right then finds every
\* record of items that matches its query.
C1_SuccessMeansPublished ==
    ReturnedOk =>
        /\ indexExists
        /\ LastOp = [op |-> "refresh", ok |-> TRUE]
        /\ searchable = DocsOf(items[1])
        /\ (resp.kind = "search" /\ ~resp.err) =>
              Range(resp.hits) =
                  { id \in 0..(Len(items[1]) - 1) :
                      MultiMatch(resp.term, items[1][id + 1]) > 0 }

\* A second call has returned success and a search right after it found both of its
\* records.
C1_Witness ==
    /\ ReturnedOk
    /\ calls[1] >= 2
    /\ Len(items[1]) >= 2
    /\ resp.kind = "search" /\ ~resp.err
    /\ Len(resp.hits) = Len(items[1])

\* C2: after successful sequential replaceIndex calls the catalog holds exactly the
\* records of the last call, record i under id i, and nothing of an earlier call.
C2_ExactlyTheLastCall ==
    ReturnedOk =>
        /\ indexExists
        /\ DOMAIN stored = 0..(Len(items[1]) - 1)
        /\ \A k \in 1..Len(items[1]) : stored[k - 1] = items[1][k]

\* The last successful call loaded fewer records than an earlier successful one.
C2_Witness ==
    /\ ReturnedOk
    /\ Len(items[1]) >= 1
    /\ \E its \in hist.loaded : Len(its) > Len(items[1])
    /\ stored = DocsOf(items[1])

\* C5: a delete or create that failed or was not acknowledged makes replaceIndex
\* return an error, and it is the last store operation of the call.
C5_FailedDeleteOrCreateStops ==
    \A k \in 1..Len(ops[1]) :
        (ops[1][k].op \in {"delete", "create"} /\ ~ops[1][k].ok) =>
            /\ k = Len(ops[1])
            /\ pc[1] = "idle"
            /\ ret[1] = "err"

\* A delete of the existing catalog was not acknowledged and left it in place.
C5_Witness ==
    /\ Len(ops[1]) = 2
    /\ LastOp = [op |-> "delete", ok |-> FALSE]
    /\ ret[1] = "err"
    /\ indexExists
    /\ stored # EmptyDocs

\* C6: a bulk insert that failed or had a document rejected makes replaceIndex return
\* an error without a refresh, and success is never reported for a catalog that
\* lacks a record of items.
C6_FailedBulkStops ==
    /\ \A k \in 1..Len(ops[1]) :
          (ops[1][k].op = "bulk" /\ ~ops[1][k].ok) =>
              /\ k = Len(ops[1])
              /\ pc[1] = "idle"
              /\ ret[1] = "err"
    /\ ReturnedOk => \A id \in 0..(Len(items[1]) - 1) : id \in DOMAIN stored

\* A bulk insert left the catalog partially populated and the call returned an error.
C6_Witness ==
    /\ Len(ops[1]) >= 1
    /\ LastOp = [op |-> "bulk", ok |-> FALSE]
    /\ ret[1] = "err"
    /\ indexExists
    /\ DOMAIN stored # {}
    /\ DOMAIN stored # 0..(Len(items[1]) - 1)

\* docs holds only records of its, each under its own id.
SubDocs(docs, its) ==
    /\ DOMAIN docs \subseteq 0..(Len(its) - 1)
    /\ \A id \in DOMAIN docs : docs[id] = its[id + 1]

\* A search has just been served successfully while replaceIndex is in progress.
ServedDuringRebuild ==
    /\ resp.kind = "search"
    /\ ~resp.err
    /\ pc[1] # "idle"

\* C3 as stated: every search that returns successfully while a replaceIndex call
\* is in progress is computed from a complete catalog (all records of one call).
C3_AsStated ==
    ServedDuringRebuild =>
        \E its \in hist.loaded \cup {items[1]} :
            Range(resp.items) =
                { its[k] : k \in { j \in DOMAIN its : MultiMatch(resp.term, its[j]) > 0 } }

\* C3, amended: while a replaceIndex call is in progress a search of the missing
\* catalog (between delete and create) fails, and a search that succeeds after the
\* create is computed from records of the call in progress only, possibly none or
\* not all of them, and never from a mix with older records.
C3_RebuildServesSubsetOfNew ==
    (resp.kind = "search" /\ pc[1] # "idle") =>
        /\ pc[1] = "create" => resp.err
        /\ (pc[1] \in {"bulk", "refresh"} /\ ~resp.err) =>
              /\ SubDocs(searchable, items[1])
              /\ \A k \in DOMAIN resp.items : resp.items[k] \in Range(items[1])

\* A catalog was complete, and during its rebuild a search succeeded on the empty
\* index although the call in progress loads records matching the query.
C3_Witness ==
    /\ ServedDuringRebuild
    /\ pc[1] = "refresh"
    /\ hist.loaded # {}
    /\ searchable = EmptyDocs
    /\ resp.hits = <<>>
    /\ \E k \in DOMAIN items[1] : MultiMatch(resp.term, items[1][k]) > 0

----------------------------------------------------------------------------
(* Two concurrent writers (SpecTwo) *)

AllIdle == \A w \in Writers : pc[w] = "idle"

\* C4: two replaceIndex calls on the same catalog are not safe to overlap: the
\* catalog a successful call leaves can differ from its records only if the two
\* calls overlapped (and C4_Witness is such a state: both calls returned success,
\* the catalog mixes their records).  Calls that do not overlap leave exactly the
\* records of the call that returned last, if it returned success.
C4_OnlyOverlapCorrupts ==
    \A w \in Writers :
        (AllIdle /\ ~hist.overlap /\ hist.lastRet = w /\ ret[w] = "ok") =>
            /\ indexExists
            /\ stored = DocsOf(items[w])

\* Both calls returned success and the catalog holds the shorter call's records
\* under the low ids and the longer call's records surviving under the higher ids.
C4_Witness ==
    /\ AllIdle
    /\ hist.overlap
    /\ \A w \in Writers : ret[w] = "ok"
    /\ indexExists
    /\ searchable = stored
    /\ \E w \in Writers :
          /\ Len(items[w]) > Len(items[Other(w)])
          /\ Len(items[Other(w)]) >= 1
          /\ DOMAIN stored = 0..(Len(items[w]) - 1)
          /\ \A id \in DOMAIN stored :
                stored[id] = IF id < Len(items[Other(w)])
                             THEN items[Other(w)][id + 1] ELSE items[w][id + 1]
          /\ stored # DocsOf(items[w])
          /\ stored # DocsOf(items[Other(w)])

\* A call has returned success and the catalog is missing.
C4_MissingAfterSuccess ==
    /\ hist.overlap
    /\ \E w \in Writers : pc[w] = "idle" /\ ret[w] = "ok"
    /\ ~indexExists

----------------------------------------------------------------------------
(* Properties of search (SpecSearch: one search of a loaded catalog) *)

ServedOk == resp.kind = "search" /\ ~resp.err

\* The text relevance, the distance and the product of the two for the served
\* query and the document id of the catalog.
RelOf(id) == MultiMatch(resp.term, searchable[id])
DistOf(id) == Distance(resp.loc, searchable[id].Location)
ProductOf(id) == RelOf(id) * GaussDecay(DistOf(id))

TextMatching == { id \in DOMAIN searchable : RelOf(id) > 0 }

\* C7: search returns at most 20 records, each one a record of the catalog, and
\* when more than 20 match, the 20 with the highest composite scores.
C7_AtMost20BestOfCatalog ==
    ServedOk =>
        /\ Len(resp.hits) <= 20
        /\ Len(resp.items) = Len(resp.hits)
        /\ \A k \in DOMAIN resp.hits :
              /\ resp.hits[k] \in DOMAIN searchable
              /\ resp.items[k] = searchable[resp.hits[k]]
        /\ \A j, k \in DOMAIN resp.hits : j # k => resp.hits[j] # resp.hits[k]
        /\ Cardinality(TextMatching) > 20 =>
              /\ Len(resp.hits) = 20
              /\ \A id \in TextMatching \ Range(resp.hits) :
                    \A k \in DOMAIN resp.hits : ProductOf(resp.hits[k]) >= ProductOf(id)

\* More than 20 records match, 20 are returned, and a record left out has a
\* strictly lower composite score than every returned one.
C7_Witness ==
    /\ ServedOk
    /\ Cardinality(TextMatching) > 20
    /\ Len(resp.hits) = 20
    /\ \E id \in TextMatching \ Range(resp.hits) :
          \A k \in DOMAIN resp.hits : ProductOf(resp.hits[k]) > ProductOf(id)
    /\ \E j, k \in DOMAIN resp.hits : ProductOf(resp.hits[j]) > ProductOf(resp.hits[k])

\* C8: the returned records are in descending order of the product text relevance
\* x geo decay, so a record of lower text relevance precedes one of higher text
\* relevance only when its product is at least as large.
C8_DescendingProduct ==
    ServedOk =>
        /\ \A k \in DOMAIN resp.hits : resp.scores[k] = ProductOf(resp.hits[k])
        /\ \A j, k \in DOMAIN resp.hits :
              j < k => ProductOf(resp.hits[j]) >= ProductOf(resp.hits[k])

\* A record of lower text relevance precedes one of higher text relevance because
\* its product is larger, and the same query from another origin lists the two in
\* the opposite order.
C8_Witness ==
    /\ ServedOk
    /\ \E j, k \in DOMAIN resp.hits :
          /\ j < k
          /\ RelOf(resp.hits[j]) < RelOf(resp.hits[k])
          /\ ProductOf(resp.hits[j]) > ProductOf(resp.hits[k])
          /\ \E loc \in OriginsOnCurve \ {resp.loc} :
                LET other == search(resp.term, loc, FALSE, 0, "asc").hits
                IN  \E m, n \in DOMAIN other :
                       m < n /\ other[m] = resp.hits[k] /\ other[n] = resp.hits[j]

\* C9: which records are returned depends on text relevance only: a record of zero
\* text relevance is never returned, and when at most 20 records have positive text
\* relevance all of them are returned, whatever the origin.
C9_TextIsTheOnlyFilter ==
    ServedOk =>
        /\ \A k \in DOMAIN resp.hits : MultiMatch(resp.term, resp.items[k]) > 0
        /\ Cardinality(TextMatching) <= 20 => Range(resp.hits) = TextMatching

\* A matching record so far away that its multiplier is 0 is returned, and a record
\* within 5 km that does not match the text is not.
C9_Witness ==
    /\ ServedOk
    /\ \E k \in DOMAIN resp.hits :
          DistOf(resp.hits[k]) > 40 /\ resp.scores[k] = 0
    /\ \E id \in DOMAIN searchable \ Range(resp.hits) :
          DistOf(id) <= 5 /\ RelOf(id) = 0

----------------------------------------------------------------------------
(* C11: search never returns records together with an error *)

\* C11: whenever search returns an error, the list of records it returns with the
\* error is empty, on the query failure path and on the decoding failure path.
C11_ErrorMeansNoRecords ==
    (resp.kind = "search" /\ resp.err) => resp.items = <<>>

\* A search whose second hit failed to decode: it returned the error together with
\* the first hit's record, fewer records than the store sent hits.
C11_Witness ==
    /\ resp.kind = "search" /\ resp.err
    /\ Len(resp.hits) >= 2
    /\ Len(resp.items) = 1
    /\ resp.items[1] = searchable[resp.hits[1]]

----------------------------------------------------------------------------
(* C12 - C16: the status of a request *)

Served == resp.kind = "http"

SearchMade == resp.search # NoResp

\* The texts that are missing, empty, or empty after trimming.
BlankText(text) == text \in {"", " "}

\* The strings that are a decimal floating-point number.
DecimalFloat(text) == text \in {"-5", "0", "5", "5.0", "15", "20"}

ValidRequest(req) ==
    /\ req.method = "GET" /\ req.path = "/search"
    /\ ~BlankText(req.searchTerm)
    /\ DecimalFloat(req.lat) /\ DecimalFloat(req.lng)

\* C12: a request whose method is not GET is answered 405, whatever its path and
\* parameters, and no search is made for it.
C12_NotGetIs405 ==
    (Served /\ resp.req.method # "GET") =>
        resp.status = 405 /\ ~SearchMade /\ resp.body = <<>>

\* A POST to /search with valid parameters was answered 405.
C12_Witness ==
    /\ Served /\ resp.req.method = "POST" /\ resp.req.path = "/search"
    /\ resp.req.searchTerm = "camera" /\ resp.req.lat = "5" /\ resp.req.lng = "0"
    /\ resp.status = 405 /\ ~SearchMade

\* C13: a GET request whose path is not exactly /search is answered 404, whatever
\* its parameters, and no search is made for it.
C13_OtherPathIs404 ==
    (Served /\ resp.req.method = "GET" /\ resp.req.path # "/search") =>
        resp.status = 404 /\ ~SearchMade /\ resp.body = <<>>

\* A GET of /search/ with valid parameters was answered 404.
C13_Witness ==
    /\ Served /\ resp.req.method = "GET" /\ resp.req.path = "/search/"
    /\ resp.req.searchTerm = "camera" /\ resp.req.lat = "5" /\ resp.req.lng = "0"
    /\ resp.status = 404 /\ ~SearchMade

\* C14: a GET /search request whose searchTerm is missing, empty, or empty after
\* trimming is answered 400, even with valid lat and lng, and no search is made.
C14_BlankTermIs400 ==
    (Served /\ resp.req.method = "GET" /\ resp.req.path = "/search"
            /\ BlankText(resp.req.searchTerm)) =>
        resp.status = 400 /\ ~SearchMade

\* GET /search?searchTerm=&lat=5&lng=0 made a search and was answered 200 with
\* the empty array.
C14_Witness ==
    /\ Served /\ resp.req.method = "GET" /\ resp.req.path = "/search"
    /\ resp.req.searchTerm = "" /\ resp.req.lat = "5" /\ resp.req.lng = "0"
    /\ SearchMade
    /\ resp.status = 200
    /\ resp.body = << [json |-> "array", elems |-> <<>>] >>

\* C15: a GET /search request in which lat or lng is missing, empty, or not a
\* decimal floating-point number is answered 400, and no search is made for it.
C15_BadCoordinateIs400 ==
    (Served /\ resp.req.method = "GET" /\ resp.req.path = "/search"
            /\ (~DecimalFloat(resp.req.lat) \/ ~DecimalFloat(resp.req.lng))) =>
        resp.status = 400 /\ ~SearchMade

\* GET /search?searchTerm=camera&lat=NaN&lng=0 made a search, which failed, and was
\* answered 500.
C15_Witness ==
    /\ Served /\ resp.req.method = "GET" /\ resp.req.path = "/search"
    /\ resp.req.searchTerm = "camera" /\ resp.req.lat = "NaN" /\ resp.req.lng = "0"
    /\ SearchMade /\ resp.search.err
    /\ resp.status = 500

\* The part of C15 the code keeps: a coordinate strconv.ParseFloat rejects is
\* answered 400 and no search is made.
C15_RejectedCoordinateIs400 ==
    (Served /\ resp.req.method = "GET" /\ resp.req.path = "/search"
            /\ (ParseFloat(resp.req.lat).err \/ ParseFloat(resp.req.lng).err)) =>
        resp.status = 400 /\ ~SearchMade

\* C16: for a GET /search request with valid parameters one search is made; if it
\* succeeds the answer is 200 and the body is the JSON array of the records search
\* returned (the empty array, not null, when nothing matches); if it fails the
\* answer is 500 with an empty body.  Every request gets one status out of 200,
\* 400, 404, 405, 500.
C16_ValidRequestIs200Or500 ==
    Served =>
        /\ resp.status \in {200, 400, 404, 405, 500}
        /\ ValidRequest(resp.req) =>
              /\ SearchMade
              /\ resp.search.term = Analyse(resp.req.searchTerm)
              /\ resp.search.err => resp.status = 500 /\ resp.body = <<>>
              /\ ~resp.search.err =>
                    /\ resp.status = 200
                    /\ Len(resp.body) <= 1
                    /\ \A k \in DOMAIN resp.body :
                          resp.body[k] = [json |-> "array", elems |-> resp.search.items]

\* A valid request that matches nothing in a catalog of one record was answered
\* 200 with the empty array.
C16_Witness ==
    /\ Served /\ ValidRequest(resp.req)
    /\ DOMAIN searchable # {}
    /\ ~resp.search.err /\ resp.search.items = <<>>
    /\ resp.status = 200
    /\ resp.body = << [json |-> "array", elems |-> <<>>] >>

\* A valid request whose search failed was answered 500 with no body.
C16_SearchFailed ==
    /\ Served /\ ValidRequest(resp.req)
    /\ resp.search.err /\ resp.status = 500 /\ resp.body = <<>>

----------------------------------------------------------------------------
(* the process from its start *)

MainDumps == { d \in Dumps : Len(d) < MaxRows }

\* The process at the start of main with its flag and its dump file, and the
\* store without the index or with the index an earlier run left.
Starting(dump, noReplace) ==
    [Serving EXCEPT !.pc = "newDB", !.connected = FALSE,
                    !.dump = dump, !.noReplace = noReplace]

InitMain ==
    /\ \/ InitStore
       \/ /\ indexExists = TRUE
          /\ \E its \in {s \in ItemSeqs : Len(s) = MaxItems} :
                stored = DocsOf(its) /\ searchable = DocsOf(its)
    /\ pc = [w \in Writers |-> "idle"]
    /\ items = [w \in Writers |-> <<>>]
    /\ ret = [w \in Writers |-> "none"]
    /\ ops = [w \in Writers |-> <<>>]
    /\ calls = [w \in Writers |-> 0]
    /\ hist = [overlap |-> FALSE, lastRet |-> 0, loaded |-> {}]
    /\ resp = NoResp
    /\ inflight = NoCalls
    /\ \E dump \in MainDumps, noReplace \in BOOLEAN : boot = Starting(dump, noReplace)

NextMain ==
    \/ NewClient
    \/ mustReadCSVFromFile
    \/ mustReplaceIndex
    \/ IndexExists(1)
    \/ DeleteIndex(1)
    \/ CreateIndex(1)
    \/ Bulk(1)
    \/ Refresh(1)
    \/ replaceIndexReturned
    \/ serve
    \/ TestRequest
    \/ StoreRefresh

SpecMain == InitMain /\ [][NextMain]_vars

\* newDB alone, with every pass of its loop eventually taken.
NextConnect == NewClient

SpecConnect == InitMain /\ [][NextConnect]_vars /\ WF_vars(NewClient)

----------------------------------------------------------------------------
(* C18, C19: readCSV (SpecCSV) *)

\* readCSV has returned.
ReadDone == boot.pc \in {"exited", "replaceIndex"} /\ boot.opened

\* The rows the claim calls invalid: wrong field count, unparseable latitude or
\* longitude, unparseable image list.
InvalidRow(row) ==
    \/ Len(row) # 5
    \/ ParseFloat(row[2]).err
    \/ ParseFloat(row[3]).err
    \/ Unmarshal(row[5]).err

InvalidRows == { k \in DOMAIN boot.dump : InvalidRow(boot.dump[k]) }

\* The record at position k is the record of row k.
RecordOfRow(k) ==
    /\ boot.read.items[k].Name = boot.dump[k][1]
    /\ boot.read.items[k].URL = boot.dump[k][4]
    /\ boot.read.items[k].Location.Lat = ParseFloat(boot.dump[k][2]).f
    /\ boot.read.items[k].Location.Lon = ParseFloat(boot.dump[k][3]).f

\* C18: readCSV stops at the first invalid row: it returns an error together with
\* exactly the records of the rows before that row, in input order, and nothing of
\* a later row; with no invalid row it returns every row's record and no error.
C18_PrefixAndError ==
    ReadDone =>
        /\ boot.read.err <=> InvalidRows # {}
        /\ \A k \in InvalidRows : Len(boot.read.items) < k
        /\ \A k \in DOMAIN boot.dump :
              (\A j \in 1..k : j \notin InvalidRows) =>
                  k \in DOMAIN boot.read.items /\ RecordOfRow(k)

\* A dump of three rows whose second row is invalid and whose third is valid: the
\* error came with the first row's record alone.
C18_Witness ==
    /\ ReadDone
    /\ Len(boot.dump) = 3
    /\ InvalidRows = {2}
    /\ boot.read.err
    /\ Len(boot.read.items) = 1 /\ RecordOfRow(1)

\* C23: the rows the claim calls valid: five fields, both coordinates decimal
\* floating-point text, the fifth field an array of strings.
ValidRow(row) ==
    /\ Len(row) = 5
    /\ DecimalFloat(row[2])
    /\ DecimalFloat(row[3])
    /\ row[5] \in {"[]", "[\"cort\",\"bass\"]"}

\* Re-serialising the record at position k gives back row k: the name and url as
\* they were, coordinates that parse to the values the row's texts parse to, and
\* the text of the image references, so the references in their order.
RoundTrip(k) ==
    LET it  == boot.read.items[k]
        row == boot.dump[k]
    IN  /\ it.Name = row[1]
        /\ it.URL = row[4]
        /\ ParseFloat(FormatFloat(it.Location.Lat)) = ParseFloat(row[2])
        /\ ParseFloat(FormatFloat(it.Location.Lon)) = ParseFloat(row[3])
        /\ Marshal(it.ImgURLs) = row[5]

\* C23: when every row of the input is valid, readCSV returns no error and exactly
\* one record per row in input order, and re-serialising each record gives back
\* the row's name, both coordinates, url and image references in their order.
C23_ParseThenSerialise ==
    (ReadDone /\ \A k \in DOMAIN boot.dump : ValidRow(boot.dump[k])) =>
        /\ ~boot.read.err
        /\ Len(boot.read.items) = Len(boot.dump)
        /\ \A k \in DOMAIN boot.dump : RoundTrip(k)

\* A dump of two different valid rows has been read: one with two image
\* references and distinct coordinates, one whose latitude text is not the text
\* re-serialisation writes.
C23_Witness ==
    /\ ReadDone
    /\ Len(boot.dump) = 2
    /\ \A k \in DOMAIN boot.dump : ValidRow(boot.dump[k])
    /\ boot.dump[1][5] = "[\"cort\",\"bass\"]"
    /\ boot.dump[1][2] # boot.dump[1][3]
    /\ boot.dump[2][2] = "5.0"
    /\ FormatFloat(boot.read.items[2].Location.Lat) = "5"
    /\ Len(boot.read.items) = 2

\* C19: every record readCSV produces has an image list that is a sequence and
\* not null; a row whose fifth field is the literal null is rejected.
C19_ImageListNeverNull ==
    ReadDone =>
        /\ \A k \in DOMAIN boot.read.items : ~boot.read.items[k].ImgURLs.isNil
        /\ (\E k \in DOMAIN boot.dump :
               Len(boot.dump[k]) = 5 /\ boot.dump[k][5] = "null") => boot.read.err

\* A dump with one row whose fifth field is null was read without an error and
\* gave a record whose image list is null.
C19_Witness ==
    /\ ReadDone
    /\ Len(boot.dump) = 1 /\ Len(boot.dump[1]) = 5 /\ boot.dump[1][5] = "null"
    /\ ~boot.read.err
    /\ Len(boot.read.items) = 1
    /\ boot.read.items[1].ImgURLs.isNil

----------------------------------------------------------------------------
(* C17: newDB (SpecConnect) *)

\* What holds of the attempts at every moment: at most 10 were made, each failed
\* one was followed by one sleep of a second, a success ends the loop, and newDB
\* gave up exactly when 10 attempts had failed.
ConnectInv ==
    /\ boot.tries <= 10
    /\ boot.tries = boot.slept + (IF boot.connected THEN 1 ELSE 0)
    /\ boot.connected => boot.pc \notin {"newDB", "exited"}
    /\ boot.pc = "exited" <=> (~boot.connected /\ boot.slept = 10)

\* C17: newDB makes at most 10 attempts with a 1 second wait after each failed
\* one, stops at the first success and returns the db with no further attempt,
\* returns an error if and only if all 10 attempts failed, and always terminates.
C17_BoundedRetries ==
    /\ []ConnectInv
    /\ [][boot.connected => boot'.tries = boot.tries]_vars
    /\ <>(boot.pc # "newDB")

\* The third attempt succeeded after two failed ones and two sleeps.
C17_Witness ==
    /\ boot.connected /\ boot.tries = 3 /\ boot.slept = 2
    /\ boot.pc # "newDB"

\* Ten attempts failed and newDB returned its error.
C17_GaveUp ==
    /\ ~boot.connected /\ boot.tries = 10 /\ boot.pc = "exited"

----------------------------------------------------------------------------
(* C20: the order of startup (SpecMain) *)

StartupInv ==
    /\ (boot.pc = "serving" \/ resp.kind = "http") =>
          /\ boot.connected
          /\ ~boot.noReplace =>
                /\ boot.opened /\ ~boot.read.err
                /\ pc[1] = "idle" /\ ret[1] = "ok"
                /\ items[1] = boot.read.items
          /\ boot.noReplace => ops[1] = <<>> /\ calls[1] = 0
    /\ (~boot.connected /\ boot.pc # "newDB") => boot.pc = "exited"
    /\ boot.read.err => boot.pc = "exited" /\ ops[1] = <<>> /\ calls[1] = 0
    /\ ret[1] = "err" => boot.pc \in {"replacing", "exited"}
    /\ boot.pc = "exited" => resp = NoResp

\* C20: the server serves only after the connection succeeded and, when the
\* rebuild is enabled, after the dump was read without error and replaceIndex
\* returned success; a failed connection, read or replace ends the process, which
\* then never serves; after a read error no store operation is issued, so the
\* parsed prefix is never loaded.
C20_ServeOnlyAfterStartup ==
    /\ []StartupInv
    /\ [][boot.pc = "exited" => boot'.pc = "exited" /\ resp' = NoResp]_vars

\* The rebuild loaded a dump of two rows and the happy-case request was answered
\* 200 from it.
C20_Witness ==
    /\ boot.pc = "serving" /\ ~boot.noReplace
    /\ Len(boot.read.items) = 2 /\ ret[1] = "ok"
    /\ searchable = DocsOf(boot.read.items)
    /\ resp.kind = "http" /\ resp.status = 200
    /\ resp.body # <<>> /\ resp.search.items # <<>>

\* The dump's second row was invalid: the process ended with the first row parsed
\* and nothing sent to the store.
C20_PrefixNotLoaded ==
    /\ boot.pc = "exited" /\ boot.read.err
    /\ Len(boot.read.items) = 1
    /\ ops[1] = <<>>

----------------------------------------------------------------------------
(* C21: startup with the rebuild switched off (SpecMain) *)

\* With --no-replace-index the process never reads the dump and never calls
\* replaceIndex, so it issues no store operation.
NoRebuildInv ==
    boot.noReplace =>
        /\ boot.pc \in {"newDB", "serve", "serving", "exited"}
        /\ ~boot.opened /\ boot.read = [items |-> <<>>, err |-> FALSE]
        /\ pc[1] = "idle" /\ calls[1] = 0 /\ ops[1] = <<>>

\* C21: started with --no-replace-index, startup issues no exists-check, delete,
\* create, bulk insert or refresh and does not read the dump; no step changes the
\* catalog, which is as it was before the start when serving begins.
C21_NoRebuildWhenOff ==
    /\ []NoRebuildInv
    /\ [][boot.noReplace => UNCHANGED <<indexExists, stored, searchable>>]_vars

\* The process started with the flag over the catalog of an earlier run, serves,
\* and answered the happy-case request from that catalog; its dump was never read.
C21_Witness ==
    /\ boot.noReplace /\ boot.pc = "serving"
    /\ boot.dump # <<>> /\ ~boot.opened
    /\ indexExists /\ DOMAIN searchable # {}
    /\ ops[1] = <<>>
    /\ resp.kind = "http" /\ resp.status = 200 /\ resp.search.items # <<>>

----------------------------------------------------------------------------
(* C22: nothing but the connection is retried (SpecMain) *)

\* The store operations of writer w's current or last replaceIndex call with name op.
Issued(w, op) == { k \in DOMAIN ops[w] : ops[w][k].op = op }

\* C22: within one replaceIndex call each of exists-check, delete, create, bulk
\* insert and refresh is issued at most once, and one search, alone or for a
\* handled request, issues the store query at most once, also when a step fails.
C22_NoRetries ==
    /\ \A w \in Writers :
          \A op \in {"exists", "delete", "create", "bulk", "refresh"} :
              Cardinality(Issued(w, op)) <= 1
    /\ resp.kind = "search" => resp.queries <= 1
    /\ (resp.kind = "http" /\ resp.search # NoResp) => resp.search.queries <= 1

\* The connection took three attempts; the replaceIndex call issued each of its
\* five operations once, the last of which failed, and returned the error.
C22_Witness ==
    /\ boot.tries = 3 /\ boot.connected
    /\ pc[1] = "idle" /\ ret[1] = "err"
    /\ Len(ops[1]) = 5
    /\ \A op \in {"exists", "delete", "create", "bulk", "refresh"} :
          Cardinality(Issued(1, op)) = 1
    /\ ~ops[1][5].ok

\* A handled request whose one query failed was answered 500.
C22_FailedQueryOnce ==
    /\ resp.kind = "http" /\ resp.search # NoResp
    /\ resp.search.err /\ resp.search.queries = 1 /\ resp.status = 500

----------------------------------------------------------------------------
(* C25: the exists-check of replaceIndex (Spec) *)

\* A call whose only operation was a failed exists-check has returned the error.
ExistsCheckFailed ==
    /\ Len(ops[1]) = 1 /\ ops[1][1].op = "exists" /\ ~ops[1][1].ok

\* The step of the exists-check: it leaves the catalog as it is; on a failure the
\* call returns the error there and then; otherwise the call goes to the delete
\* if the index exists and straight to the create if it does not.
ExistsCheckStep ==
    (pc[1] = "exists" /\ pc'[1] # "exists") =>
        /\ UNCHANGED <<indexExists, stored, searchable>>
        /\ Len(ops'[1]) = 1 /\ ops'[1][1].op = "exists"
        /\ ~ops'[1][1].ok => pc'[1] = "idle" /\ ret'[1] = "err"
        /\ ops'[1][1].ok => pc'[1] = (IF indexExists THEN "delete" ELSE "create")

\* The call itself, before its exists-check, does not touch the catalog.
CallStep ==
    (pc[1] = "idle" /\ pc'[1] = "exists") =>
        UNCHANGED <<indexExists, stored, searchable>> /\ ops'[1] = <<>>

\* C25: if the exists-check of replaceIndex fails, replaceIndex returns an error
\* without issuing delete, create, bulk insert or refresh, and the catalog is as
\* it was before the call; when the index does not exist the delete is skipped
\* and the create comes next.
C25_ExistsCheckFirst ==
    /\ [](ExistsCheckFailed => pc[1] = "idle" /\ ret[1] = "err")
    /\ [][ExistsCheckStep /\ CallStep]_vars
    /\ [](\A k \in DOMAIN ops[1] : ops[1][k].op = "exists" => k = 1)

\* After a successful load, a second call failed at its exists-check: it returned
\* the error and the catalog of the first call is still stored and searchable.
C25_Witness ==
    /\ pc[1] = "idle" /\ ret[1] = "err" /\ calls[1] = 2
    /\ ExistsCheckFailed
    /\ indexExists /\ DOMAIN stored # {} /\ searchable = stored
    /\ \E its \in hist.loaded : stored = DocsOf(its)

\* On a store without the index a call went from the exists-check to the create
\* with no delete.
C25_DeleteSkipped ==
    /\ Len(ops[1]) >= 2
    /\ ops[1][1].op = "exists" /\ ops[1][1].ok
    /\ ops[1][2].op = "create"
    /\ calls[1] = 1

-----------------------------------------------------------------------------
(* C24: requests only read (SpecHandlers) *)

\* A step of handler h.
HandlerStep(h) == Validate(h) \/ Query(h) \/ Return(h)

\* The response of a finished call is a response ServeHTTP gives to the call's own
\* request over the catalog, whatever the other handler has done or is doing.
OwnResponse(h) ==
    inflight[h].pc = "done" =>
        \E fail \in BOOLEAN, bad \in BadHits, tie \in TieOrders, wok \in BOOLEAN :
            inflight[h].out = ServeHTTP(inflight[h].req, fail, bad, tie, wok)

HandlersInv ==
    /\ \A h \in Handlers : OwnResponse(h)
    /\ \A h \in Handlers : ENABLED HandlerStep(h)

\* C24: requests only read the catalog.  No step of a request, whatever its
\* outcome and however the steps of two requests interleave, changes the
\* existence of the index or its documents; no handler ever waits for the other;
\* and the response of a call depends on its own request and the catalog alone.
C24_RequestsOnlyRead ==
    /\ []HandlersInv
    /\ [][inflight' # inflight => UNCHANGED <<indexExists, stored, searchable>>]_vars

\* Two calls in flight at once over a loaded catalog: one has answered 200 with
\* records while the other, for a different search, is between reading its
\* request and querying the index.
C24_Witness ==
    /\ indexExists /\ DOMAIN searchable # {}
    /\ inflight[1].pc = "done"
    /\ inflight[1].out.status = 200
    /\ inflight[1].out.search.items # <<>>
    /\ inflight[2].pc = "search"
    /\ inflight[2].locals # LocalsOf(inflight[1].req)

\* Both calls have finished over the same catalog with different outcomes, a
\* server error and a client error.
C24_MixedOutcomes ==
    /\ inflight[1].pc = "done" /\ inflight[1].out.status = 500
    /\ inflight[2].pc = "done" /\ inflight[2].out.status = 405

====
